---- MODULE Spec2Model ----
(***************************************************************************)
(* A model of ratatoskr/concurrent.hpp: the channel (channel_state,        *)
(* channel, sender, receiver, shared_receiver, channel_closer) and the     *)
(* scheduler.                                                              *)
(*                                                                         *)
(* Every critical section of channel_state::data_mutex is one action: no   *)
(* code blocks while it holds data_mutex (condition_variable::wait gives   *)
(* it up), so a lock_guard scope is atomic.  What follows the scope (the   *)
(* notify_one / notify_all) is a step of its own.  scheduler::m is held    *)
(* across calls that block, so it is modelled as a variable.               *)
(***************************************************************************)
EXTENDS Integers, Sequences, FiniteSets, TLC

\* ------------------------------------------------------------------ bounds
\* The number of push calls made in a behaviour.
MaxPush == 3

\* ----------------------------------------------------------------- threads
\* Threads that call sender / channel / channel_closer operations.
Producers == {"p1", "p2"}
\* Threads that call get_receiver, share and next.
Consumers == {"c1", "c2"}
ChanThreads == Producers \cup Consumers
\* Threads that call scheduler::connect, halt and wait.
Drivers == {"d1", "d2"}
\* The std::thread objects handed to scheduler::connect.  The function of
\* each loops on next() of its channel's shared_receiver and returns on
\* close_channel.
Workers == {"w1", "w2", "w3"}
Threads == ChanThreads \cup Drivers \cup Workers

NoThread == "none"

\* The channel the producers and consumers work on, and the channels of the
\* workers.
Chan == "ch"
WorkerChans == {"ch1", "ch2"}
WChan(w) == IF w = "w1" THEN "ch1" ELSE "ch2"

VARIABLES
  has_receiver_v,  \* channel_state::has_receiver_v, per channel
  is_closed_v,     \* channel_state::is_closed_v, per channel
  data,            \* channel_state::data: a sequence of nodes [id, val]
  last,            \* channel_state::last: the id of a node
  notifier,        \* channel_state::notifier: the threads blocked in wait
  iterator,        \* receiver::iterator of the channel's receiver
  owner,           \* the thread holding the receiver that was constructed
  shared,          \* whether receiver::share() has been called on it
  sender_made,     \* whether a sender of the channel was constructed
  pc,              \* each thread's position
  snap,            \* receiver::receiver: the iterator member of a pending construction
  res,             \* each thread's last outcome (a return or an exception)
  nextVal,         \* the value the next push call passes
  accepted,        \* history: the values appended, in mutex order
  dropped,         \* history: the values push returned on without appending
  received,        \* history: the values next returned, in mutex order
  peeked,          \* what each thread's last receiver::operator* returned
  sched_is_closed_v, \* scheduler::is_closed_v
  closers,         \* scheduler::closers: the channels of the closers, front first
  threads,         \* scheduler::threads: front first
  m,               \* scheduler::m: the thread holding it
  cv,              \* scheduler::cv: the threads blocked in wait
  joinable,        \* std::thread::joinable() of each worker's thread object
  args,            \* the arguments of each thread's last connect call
  idx,             \* the position of each thread's range-for loop
  halt_done        \* history: a halt() has left its critical section

chanVars == <<has_receiver_v, is_closed_v, data, last, notifier>>
rcvVars == <<iterator, owner, shared>>
histVars == <<nextVal, accepted, dropped, received, peeked>>
schedVars == <<sched_is_closed_v, closers, threads, m, cv, joinable, args,
               idx, halt_done>>
vars == <<has_receiver_v, is_closed_v, data, last, notifier, iterator, owner,
          shared, sender_made, pc, snap, res, nextVal, accepted, dropped,
          received, peeked, sched_is_closed_v, closers, threads, m, cv, joinable, args,
          idx, halt_done>>

\* ------------------------------------------------- std::forward_list<optional<T>>
\* std::nullopt and an engaged optional: a sequence of at most one value.
nullopt == <<>>
Some(x) == <<x>>

\* forward_list::end(): no node has this id.
end == 0

\* The id of the node the channel_state constructor puts in the list.
Sentinel == 1

\* The position of the node an iterator refers to.
IndexOf(l, it) == CHOOSE i \in 1..Len(l) : l[i].id = it

\* ++it
Succ(l, it) ==
  LET i == IndexOf(l, it)
  IN  IF i < Len(l) THEN l[i + 1].id ELSE end

\* *it
Deref(l, it) == l[IndexOf(l, it)].val

\* forward_list::insert_after(it, x): a new node, with id n, after the node of it.
insert_after(l, it, n, x) ==
  LET i == IndexOf(l, it)
  IN  SubSeq(l, 1, i) \o <<[id |-> n, val |-> Some(x)]>> \o SubSeq(l, i + 1, Len(l))

\* forward_list::pop_front()
pop_front(l) == Tail(l)

\* The id of the node the next insert_after allocates.
NewId(c) == Len(accepted[c]) + 2

\* ------------------------------------------------------------ channel_state
\* The channel a thread's handles refer to.
ChanOf(t) == IF t \in Workers THEN WChan(t) ELSE Chan

\* channel_state::channel_state(): is_closed_v(false), data{nullopt},
\* last(data.begin()); has_receiver_v has no initializer, so its value hr is
\* indeterminate.
ChannelState(C, hr) ==
  /\ has_receiver_v = [c \in C |-> hr[c]]
  /\ is_closed_v = [c \in C |-> FALSE]
  /\ data = [c \in C |-> <<[id |-> Sentinel, val |-> nullopt]>>]
  /\ last = [c \in C |-> Sentinel]
  /\ notifier = [c \in C |-> {}]

\* No receiver and no sender has been constructed, no thread has run.
NoHandles(C) ==
  /\ iterator = [c \in C |-> end]
  /\ owner = [c \in C |-> NoThread]
  /\ shared = [c \in C |-> FALSE]
  /\ sender_made = [c \in C |-> FALSE]
  /\ snap = [t \in Threads |-> end]
  /\ res = [t \in Threads |-> "none"]
  /\ nextVal = 1
  /\ accepted = [c \in C |-> <<>>]
  /\ dropped = {}
  /\ received = [c \in C |-> <<>>]
  /\ peeked = [t \in Threads |-> nullopt]

\* The arguments of a thread that is not in connect and did not just return
\* from it.
NoArgs == [ths |-> <<>>, closer |-> Chan]

\* scheduler::scheduler(): is_closed_v(false), the lists empty.  ws are the
\* threads that have been started.
SchedulerState(ws) ==
  /\ sched_is_closed_v = FALSE
  /\ closers = <<>>
  /\ threads = <<>>
  /\ m = NoThread
  /\ cv = {}
  /\ joinable = [w \in Workers |-> w \in ws]
  /\ args = [t \in Threads |-> NoArgs]
  /\ idx = [t \in Threads |-> 1]
  /\ halt_done = FALSE

\* channel<T> ch: a channel just constructed.
Init ==
  /\ \E hr \in [{Chan} -> BOOLEAN] : ChannelState({Chan}, hr)
  /\ NoHandles({Chan})
  /\ pc = [t \in Threads |-> "idle"]
  /\ SchedulerState({})

\* notify_one that reaches no waiter.
NotifyOne_Lost(t, c, w) ==
  /\ w = NoThread
  /\ notifier' = notifier
  /\ pc' = [pc EXCEPT ![t] = "idle"]

\* condition_variable::notify_one as seen in pc: one blocked thread, if there
\* is one, is made runnable.
NotifyOne(t, c, w) ==
  /\ \/ notifier[c] = {} /\ w = NoThread
     \/ w \in notifier[c]
  /\ notifier' = [notifier EXCEPT ![c] = @ \ {w}]
  /\ pc' = [u \in DOMAIN pc |-> IF u = t THEN "idle"
                                ELSE IF u = w THEN "woken" ELSE pc[u]]

\* notify_one in the place of notify_all: one waiter is woken.
NotifyAll_One(t, c, next) ==
  LET w == IF notifier[c] = {} THEN NoThread ELSE CHOOSE u \in notifier[c] : TRUE
  IN  /\ notifier' = [notifier EXCEPT ![c] = @ \ {w}]
      /\ pc' = [u \in DOMAIN pc |-> IF u = t THEN next
                                    ELSE IF u = w THEN "woken" ELSE pc[u]]

\* condition_variable::notify_all: every blocked thread is made runnable;
\* the caller goes on at label next.
NotifyAll(t, c, next) ==
  /\ notifier' = [notifier EXCEPT ![c] = {}]
  /\ pc' = [u \in DOMAIN pc |-> IF u = t THEN next
                                ELSE IF u \in notifier[c] THEN "woken" ELSE pc[u]]

\* ------------------------------------------------------------------ sender
\* sender::sender(state), reached through channel::get_sender.
GetSender(t) ==
  LET c == ChanOf(t)
  IN  /\ t \in Producers /\ pc[t] = "idle"
      /\ IF is_closed_v[c]
           THEN /\ res' = [res EXCEPT ![t] = "channel_already_closed"]
                /\ UNCHANGED sender_made
           ELSE /\ res' = [res EXCEPT ![t] = "sender"]
                /\ sender_made' = [sender_made EXCEPT ![c] = TRUE]
      /\ UNCHANGED <<chanVars, rcvVars, pc, snap, histVars, schedVars>>

\* push without ++state->last: every insert lands after the same node.
PushLocked_NoAdvance(t, c, x) ==
  IF ~has_receiver_v[c]
    THEN /\ dropped' = dropped \cup {x}
         /\ UNCHANGED <<data, last, accepted, pc>>
    ELSE /\ data' = [data EXCEPT ![c] = insert_after(@, last[c], NewId(c), x)]
         /\ last' = last
         /\ accepted' = [accepted EXCEPT ![c] = Append(@, x)]
         /\ pc' = [pc EXCEPT ![t] = "push_notify"]
         /\ UNCHANGED dropped

\* The lock_guard scope of push (sender::push and channel::push, const T& and
\* T&&, are the same code).
PushLocked(t, c, x) ==
  IF ~has_receiver_v[c]
    THEN /\ dropped' = dropped \cup {x}
         /\ UNCHANGED <<data, last, accepted, pc>>
    ELSE /\ data' = [data EXCEPT ![c] = insert_after(@, last[c], NewId(c), x)]
         /\ last' = [last EXCEPT ![c] = Succ(data'[c], @)]
         /\ accepted' = [accepted EXCEPT ![c] = Append(@, x)]
         /\ pc' = [pc EXCEPT ![t] = "push_notify"]
         /\ UNCHANGED dropped

Push(t) ==
  /\ t \in Producers /\ pc[t] = "idle"
  /\ nextVal <= MaxPush
  /\ PushLocked(t, ChanOf(t), nextVal)
  /\ nextVal' = nextVal + 1
  /\ res' = [res EXCEPT ![t] = "none"]
  /\ UNCHANGED <<has_receiver_v, is_closed_v, notifier, rcvVars, sender_made,
                 snap, received, peeked, schedVars>>

\* sender::push
SenderPush(t) == sender_made[ChanOf(t)] /\ Push(t)

\* channel::push
ChannelPush(t) == Push(t)

\* state->notifier.notify_one() after the scope of push.
PushNotify(t) ==
  /\ pc[t] = "push_notify"
  /\ \E w \in notifier[ChanOf(t)] \cup {NoThread} : NotifyOne(t, ChanOf(t), w)
  /\ UNCHANGED <<has_receiver_v, is_closed_v, data, last, rcvVars, sender_made,
                 snap, res, histVars, schedVars>>

\* close that flips the flag instead of setting it.
CloseLocked_Toggle(t, c, next) ==
  /\ is_closed_v' = [is_closed_v EXCEPT ![c] = ~@]
  /\ pc' = [pc EXCEPT ![t] = next]

\* The lock_guard scope of close (sender::close, channel::close and
\* channel_closer::close are the same code); the caller goes on at label next.
CloseLocked(t, c, next) ==
  /\ is_closed_v' = [is_closed_v EXCEPT ![c] = TRUE]
  /\ pc' = [pc EXCEPT ![t] = next]

Close(t) ==
  /\ t \in Producers /\ pc[t] = "idle"
  /\ CloseLocked(t, ChanOf(t), "close_notify")
  /\ res' = [res EXCEPT ![t] = "none"]
  /\ UNCHANGED <<has_receiver_v, data, last, notifier, rcvVars, sender_made,
                 snap, histVars, schedVars>>

\* sender::close
SenderClose(t) == sender_made[ChanOf(t)] /\ Close(t)

\* channel::close
ChannelClose(t) == Close(t)

\* channel_closer::close on a closer from channel::get_closer
CloserClose(t) == Close(t)

\* notifier.notify_all() after the scope of close.
CloseNotify(t) ==
  /\ pc[t] = "close_notify"
  /\ NotifyAll(t, ChanOf(t), "idle")
  /\ UNCHANGED <<has_receiver_v, is_closed_v, data, last, rcvVars, sender_made,
                 snap, res, histVars, schedVars>>

\* ---------------------------------------------------------------- receiver
\* receiver::receiver(state), the member initializers: iterator is read from
\* state->last under a lock_guard that is a temporary of the initializer.
ReceiverInit(t) ==
  /\ t \in Consumers /\ pc[t] = "idle"
  /\ snap' = [snap EXCEPT ![t] = last[ChanOf(t)]]
  /\ pc' = [pc EXCEPT ![t] = "ctor"]
  /\ res' = [res EXCEPT ![t] = "none"]
  /\ UNCHANGED <<chanVars, rcvVars, sender_made, histVars, schedVars>>

\* The constructor body with its two tests in the other order.
ReceiverBody_ClosedFirst(t) ==
  LET c == ChanOf(t)
  IN  /\ pc[t] = "ctor"
      /\ IF is_closed_v[c]
           THEN /\ res' = [res EXCEPT ![t] = "channel_already_closed"]
                /\ UNCHANGED <<has_receiver_v, iterator, owner>>
           ELSE IF has_receiver_v[c]
           THEN /\ res' = [res EXCEPT ![t] = "receiver_already_retrived"]
                /\ UNCHANGED <<has_receiver_v, iterator, owner>>
           ELSE /\ has_receiver_v' = [has_receiver_v EXCEPT ![c] = TRUE]
                /\ iterator' = [iterator EXCEPT ![c] = snap[t]]
                /\ owner' = [owner EXCEPT ![c] = t]
                /\ res' = [res EXCEPT ![t] = "receiver"]
      /\ snap' = [snap EXCEPT ![t] = end]
      /\ pc' = [pc EXCEPT ![t] = "idle"]
      /\ UNCHANGED <<is_closed_v, data, last, notifier, shared, sender_made,
                     histVars, schedVars>>

\* receiver::receiver(state), the body, under a second lock_guard.
ReceiverBody(t) ==
  LET c == ChanOf(t)
  IN  /\ pc[t] = "ctor"
      /\ IF has_receiver_v[c]
           THEN /\ res' = [res EXCEPT ![t] = "receiver_already_retrived"]
                /\ UNCHANGED <<has_receiver_v, iterator, owner>>
           ELSE IF is_closed_v[c]
           THEN /\ res' = [res EXCEPT ![t] = "channel_already_closed"]
                /\ UNCHANGED <<has_receiver_v, iterator, owner>>
           ELSE /\ has_receiver_v' = [has_receiver_v EXCEPT ![c] = TRUE]
                /\ iterator' = [iterator EXCEPT ![c] = snap[t]]
                /\ owner' = [owner EXCEPT ![c] = t]
                /\ res' = [res EXCEPT ![t] = "receiver"]
      /\ snap' = [snap EXCEPT ![t] = end]
      /\ pc' = [pc EXCEPT ![t] = "idle"]
      /\ UNCHANGED <<is_closed_v, data, last, notifier, shared, sender_made,
                     histVars, schedVars>>

\* receiver::share(): the receiver moves into a shared_receiver, whose copies
\* any consumer thread may hold.
Share(t) ==
  LET c == ChanOf(t)
  IN  /\ pc[t] = "idle" /\ owner[c] = t /\ ~shared[c]
      /\ shared' = [shared EXCEPT ![c] = TRUE]
      /\ res' = [res EXCEPT ![t] = "none"]
      /\ UNCHANGED <<chanVars, iterator, owner, sender_made, pc, snap,
                     histVars, schedVars>>

\* Whether thread t holds the receiver or a copy of its shared_receiver.
HoldsReceiver(t) ==
  LET c == ChanOf(t)
  IN  owner[c] # NoThread /\ (owner[c] = t \/ shared[c])

\* The predicate of notifier.wait in receiver::next.
WaitPredicate(c) ==
  Succ(data[c], iterator[c]) # end \/ is_closed_v[c]

\* next that hands out a buffered item before it looks at is_closed_v.
NextLocked_Drain(t) ==
  LET c == ChanOf(t)
  IN  IF ~WaitPredicate(c)
        THEN /\ notifier' = [notifier EXCEPT ![c] = @ \cup {t}]
             /\ pc' = [pc EXCEPT ![t] = "waiting"]
             /\ res' = [res EXCEPT ![t] = "none"]
             /\ UNCHANGED <<data, iterator, received>>
        ELSE IF Succ(data[c], iterator[c]) = end
        THEN /\ res' = [res EXCEPT ![t] = "close_channel"]
             /\ pc' = [pc EXCEPT ![t] = "idle"]
             /\ UNCHANGED <<data, iterator, notifier, received>>
        ELSE /\ iterator' = [iterator EXCEPT ![c] = Succ(data[c], @)]
             /\ data' = [data EXCEPT ![c] = pop_front(@)]
             /\ received' = [received EXCEPT
                               ![c] = Append(@, Head(Deref(data'[c], iterator'[c])))]
             /\ res' = [res EXCEPT ![t] = "value"]
             /\ pc' = [pc EXCEPT ![t] = "idle"]
             /\ UNCHANGED notifier

\* receiver::next from an evaluation of the wait predicate, the mutex held,
\* to the wait or the return.
NextLocked(t) ==
  LET c == ChanOf(t)
  IN  IF ~WaitPredicate(c)
        THEN /\ notifier' = [notifier EXCEPT ![c] = @ \cup {t}]
             /\ pc' = [pc EXCEPT ![t] = "waiting"]
             /\ res' = [res EXCEPT ![t] = "none"]
             /\ UNCHANGED <<data, iterator, received>>
        ELSE IF is_closed_v[c]
        THEN /\ res' = [res EXCEPT ![t] = "close_channel"]
             /\ pc' = [pc EXCEPT ![t] = "idle"]
             /\ UNCHANGED <<data, iterator, notifier, received>>
        ELSE /\ iterator' = [iterator EXCEPT ![c] = Succ(data[c], @)]
             /\ data' = [data EXCEPT ![c] = pop_front(@)]
             /\ received' = [received EXCEPT
                               ![c] = Append(@, Head(Deref(data'[c], iterator'[c])))]
             /\ res' = [res EXCEPT ![t] = "value"]
             /\ pc' = [pc EXCEPT ![t] = "idle"]
             /\ UNCHANGED notifier

\* receiver::next (and shared_receiver::next, which forwards to it): the call.
NextCall(t) ==
  /\ pc[t] = "idle" /\ HoldsReceiver(t)
  /\ NextLocked(t)
  /\ UNCHANGED <<has_receiver_v, is_closed_v, last, owner, shared, sender_made,
                 snap, nextVal, accepted, dropped, peeked, schedVars>>

\* receiver::next: a thread that left the wait takes the mutex again and
\* evaluates the predicate again.
NextResume(t) ==
  /\ pc[t] = "woken"
  /\ NextLocked(t)
  /\ UNCHANGED <<has_receiver_v, is_closed_v, last, owner, shared, sender_made,
                 snap, nextVal, accepted, dropped, peeked, schedVars>>

\* condition_variable::wait may return without a notification.
SpuriousWake(t) ==
  /\ pc[t] = "waiting" /\ t \in notifier[ChanOf(t)]
  /\ notifier' = [notifier EXCEPT ![ChanOf(t)] = @ \ {t}]
  /\ pc' = [pc EXCEPT ![t] = "woken"]
  /\ UNCHANGED <<has_receiver_v, is_closed_v, data, last, rcvVars, sender_made,
                 snap, res, histVars, schedVars>>

\* operator* that moves the cursor on, as next() does.
Peek_Advance(t) ==
  LET c == ChanOf(t)
  IN  /\ pc[t] = "idle" /\ HoldsReceiver(t)
      /\ Succ(data[c], iterator[c]) # end
      /\ iterator' = [iterator EXCEPT ![c] = Succ(data[c], @)]
      /\ data' = [data EXCEPT ![c] = pop_front(@)]
      /\ peeked' = [peeked EXCEPT ![t] = Deref(data'[c], iterator'[c])]
      /\ res' = [res EXCEPT ![t] = "peeked"]
      /\ UNCHANGED <<has_receiver_v, is_closed_v, last, notifier, owner,
                     shared, sender_made, pc, snap, nextVal, accepted,
                     dropped, received, schedVars>>

\* receiver::operator* (and shared_receiver::operator*, which forwards to
\* it): *iterator under a lock_guard of data_mutex.
Peek(t) ==
  LET c == ChanOf(t)
  IN  /\ pc[t] = "idle" /\ HoldsReceiver(t)
      /\ peeked' = [peeked EXCEPT ![t] = Deref(data[c], iterator[c])]
      /\ res' = [res EXCEPT ![t] = "peeked"]
      /\ UNCHANGED <<chanVars, rcvVars, sender_made, pc, snap, nextVal,
                     accepted, dropped, received, schedVars>>

\* ------------------------------------------------------------ specification
\* The values of the nodes after the receiver's cursor: buffered and unread.
Unread(c) ==
  LET l == data[c]
      i == IndexOf(l, iterator[c])
  IN  [k \in 1..(Len(l) - i) |-> Head(l[i + k].val)]

IsPrefix(a, b) == Len(a) <= Len(b) /\ a = SubSeq(b, 1, Len(a))

Next ==
  \E t \in ChanThreads :
    \/ GetSender(t)
    \/ SenderPush(t)
    \/ ChannelPush(t)
    \/ PushNotify(t)
    \/ SenderClose(t)
    \/ ChannelClose(t)
    \/ CloserClose(t)
    \/ CloseNotify(t)
    \/ ReceiverInit(t)
    \/ ReceiverBody(t)
    \/ Share(t)
    \/ t \in Consumers /\ NextCall(t)
    \/ NextResume(t)
    \/ SpuriousWake(t)

Spec == Init /\ [][Next]_vars

\* ------------------------------------------- a channel in use, fair threads
\* make_channel<T>(with_shared_receiver) has returned (its get_sender,
\* get_receiver and share succeeded): the producers hold copies of the sender,
\* the consumers copies of the shared_receiver.
LiveInit ==
  /\ ChannelState({Chan}, [c \in {Chan} |-> TRUE])
  /\ iterator = [c \in {Chan} |-> Sentinel]
  /\ owner = [c \in {Chan} |-> "c1"]
  /\ shared = [c \in {Chan} |-> TRUE]
  /\ sender_made = [c \in {Chan} |-> TRUE]
  /\ snap = [t \in Threads |-> end]
  /\ res = [t \in Threads |-> "none"]
  /\ nextVal = 1
  /\ accepted = [c \in {Chan} |-> <<>>]
  /\ dropped = {}
  /\ received = [c \in {Chan} |-> <<>>]
  /\ peeked = [t \in Threads |-> nullopt]
  /\ pc = [t \in Threads |-> "idle"]
  /\ SchedulerState({})

LiveNext ==
  \E t \in ChanThreads :
    \/ SenderPush(t)
    \/ PushNotify(t)
    \/ SenderClose(t)
    \/ CloseNotify(t)
    \/ t \in Consumers /\ NextCall(t)
    \/ NextResume(t)
    \/ SpuriousWake(t)

\* A thread that is runnable inside a call runs: it gets to its notify, and a
\* thread that left the wait gets the mutex.  Nothing makes a thread start a
\* call, and no wait ends by itself.
Fairness ==
  \A t \in ChanThreads :
    /\ WF_vars(PushNotify(t))
    /\ WF_vars(CloseNotify(t))
    /\ WF_vars(NextResume(t))

LiveSpec == LiveInit /\ [][LiveNext]_vars /\ Fairness

\* The threads inside next(): blocked in the wait, or on their way out of it.
InNext(t) == pc[t] \in {"waiting", "woken"}

\* --------------------------------------------------------------- scheduler
Range(q) == {q[i] : i \in 1..Len(q)}

\* The thread lists a driver can hand to the list overloads of connect.
ThreadLists == {<<"w2", "w3">>, <<"w3", "w2">>}

\* A started thread whose std::thread object has not been given to connect.
Free(w) ==
  /\ joinable[w]
  /\ w \notin Range(threads)
  /\ \A t \in Threads : w \notin Range(args[t].ths)

\* Two channels from make_channel<T>(with_shared_receiver), each with the
\* threads started on its shared_receiver, and a scheduler just constructed.
SchedInit ==
  /\ ChannelState(WorkerChans, [c \in WorkerChans |-> TRUE])
  /\ iterator = [c \in WorkerChans |-> Sentinel]
  /\ owner = [c \in WorkerChans |-> CHOOSE w \in Workers : WChan(w) = c]
  /\ shared = [c \in WorkerChans |-> TRUE]
  /\ sender_made = [c \in WorkerChans |-> TRUE]
  /\ snap = [t \in Threads |-> end]
  /\ res = [t \in Threads |-> "none"]
  /\ nextVal = 1
  /\ accepted = [c \in WorkerChans |-> <<>>]
  /\ dropped = {}
  /\ received = [c \in WorkerChans |-> <<>>]
  /\ peeked = [t \in Threads |-> nullopt]
  /\ pc = [t \in Threads |-> "idle"]
  /\ SchedulerState(Workers)

chanAll == <<chanVars, rcvVars, sender_made, snap, histVars>>

\* halt that closes the closers but does not set is_closed_v.
HaltEnter_NoFlag(t) ==
  /\ m = NoThread
  /\ m' = t
  /\ idx' = [idx EXCEPT ![t] = 1]
  /\ pc' = [pc EXCEPT ![t] = "halt_loop"]
  /\ res' = [res EXCEPT ![t] = "none"]
  /\ args' = [args EXCEPT ![t] = NoArgs]
  /\ UNCHANGED <<chanAll, sched_is_closed_v, closers, threads, cv, joinable,
                 halt_done>>

\* scheduler::halt: lock_guard lock{m}; is_closed_v = true; the loop begins.
HaltEnter(t) ==
  /\ m = NoThread
  /\ m' = t
  /\ sched_is_closed_v' = TRUE
  /\ idx' = [idx EXCEPT ![t] = 1]
  /\ pc' = [pc EXCEPT ![t] = "halt_loop"]
  /\ res' = [res EXCEPT ![t] = "none"]
  /\ args' = [args EXCEPT ![t] = NoArgs]
  /\ UNCHANGED <<chanAll, closers, threads, cv, joinable, halt_done>>

\* scheduler::halt called by a driver.
HaltLock(t) ==
  /\ t \in Drivers /\ pc[t] = "idle"
  /\ HaltEnter(t)

\* scheduler::halt: c.close() for the closer the loop is at, its lock_guard scope.
HaltClose(t) ==
  /\ pc[t] = "halt_loop" /\ idx[t] <= Len(closers)
  /\ CloseLocked(t, closers[idx[t]], "halt_notify")
  /\ UNCHANGED <<has_receiver_v, data, last, notifier, rcvVars, sender_made,
                 snap, res, histVars, schedVars>>

\* scheduler::halt: the notify_all of c.close(); the loop moves on.
HaltCloseNotify(t) ==
  /\ pc[t] = "halt_notify"
  /\ NotifyAll(t, closers[idx[t]], "halt_loop")
  /\ idx' = [idx EXCEPT ![t] = @ + 1]
  /\ UNCHANGED <<has_receiver_v, is_closed_v, data, last, rcvVars, sender_made,
                 snap, res, histVars, sched_is_closed_v, closers, threads, m,
                 cv, joinable, args, halt_done>>

\* halt that leaves its loop after the first closer.
HaltUnlock_Early(t) ==
  /\ pc[t] = "halt_loop" /\ (idx[t] > 1 \/ idx[t] > Len(closers))
  /\ m' = NoThread
  /\ halt_done' = TRUE
  /\ idx' = [idx EXCEPT ![t] = 1]
  /\ pc' = [pc EXCEPT ![t] = "halt_cv"]
  /\ UNCHANGED <<chanAll, res, sched_is_closed_v, closers, threads, cv,
                 joinable, args>>

\* scheduler::halt: the loop is over and the scope of the lock_guard ends.
HaltUnlock(t) ==
  /\ pc[t] = "halt_loop" /\ idx[t] > Len(closers)
  /\ m' = NoThread
  /\ halt_done' = TRUE
  /\ idx' = [idx EXCEPT ![t] = 1]
  /\ pc' = [pc EXCEPT ![t] = "halt_cv"]
  /\ UNCHANGED <<chanAll, res, sched_is_closed_v, closers, threads, cv,
                 joinable, args>>

\* scheduler::halt: cv.notify_all(), and the return.
HaltNotify(t) ==
  /\ pc[t] = "halt_cv"
  /\ cv' = {}
  /\ pc' = [u \in DOMAIN pc |-> IF u = t THEN "idle"
                                ELSE IF u \in cv THEN "wait_woken" ELSE pc[u]]
  /\ res' = [res EXCEPT ![t] = "halted"]
  /\ UNCHANGED <<chanAll, sched_is_closed_v, closers, threads, m, joinable,
                 args, idx, halt_done>>

\* connect that stores the pair without looking at is_closed_v.
ConnectLocked_NoCheck(t, ths, c) ==
  /\ m = NoThread
  /\ args' = [args EXCEPT ![t] = [ths |-> ths, closer |-> c]]
  /\ threads' = ths \o threads
  /\ closers' = <<c>> \o closers
  /\ res' = [res EXCEPT ![t] = "stored"]
  /\ pc' = [pc EXCEPT ![t] = "idle"]
  /\ UNCHANGED m

\* connect that closes and joins whatever is_closed_v says.
ConnectLocked_AlwaysJoin(t, ths, c) ==
  /\ m = NoThread
  /\ args' = [args EXCEPT ![t] = [ths |-> ths, closer |-> c]]
  /\ m' = t
  /\ pc' = [pc EXCEPT ![t] = "connect_close"]
  /\ res' = [res EXCEPT ![t] = "none"]
  /\ UNCHANGED <<threads, closers>>

\* scheduler::connect, all four overloads, from the lock_guard to the return
\* (scheduler running) or to closer.close() (scheduler halted).  ths is the
\* one thread, or the list of threads: emplace_front and splice_after put
\* them at the front.
ConnectLocked(t, ths, c) ==
  /\ m = NoThread
  /\ args' = [args EXCEPT ![t] = [ths |-> ths, closer |-> c]]
  /\ IF sched_is_closed_v
       THEN /\ m' = t
            /\ pc' = [pc EXCEPT ![t] = "connect_close"]
            /\ res' = [res EXCEPT ![t] = "none"]
            /\ UNCHANGED <<threads, closers>>
       ELSE /\ threads' = ths \o threads
            /\ closers' = <<c>> \o closers
            /\ res' = [res EXCEPT ![t] = "stored"]
            /\ pc' = [pc EXCEPT ![t] = "idle"]
            /\ UNCHANGED m

\* scheduler::connect(std::thread &&, closer)
ConnectThread(t, w) ==
  /\ t \in Drivers /\ pc[t] = "idle"
  /\ Free(w)
  /\ ConnectLocked(t, <<w>>, WChan(w))
  /\ UNCHANGED <<chanAll, sched_is_closed_v, cv, joinable, idx, halt_done>>

\* scheduler::connect(std::forward_list<std::thread> &, closer)
ConnectList(t, ths) ==
  /\ t \in Drivers /\ pc[t] = "idle"
  /\ \A w \in Range(ths) : Free(w)
  /\ ConnectLocked(t, ths, WChan(ths[1]))
  /\ UNCHANGED <<chanAll, sched_is_closed_v, cv, joinable, idx, halt_done>>

\* scheduler::connect, halted: closer.close(), its lock_guard scope.
ConnectClose(t) ==
  /\ pc[t] = "connect_close"
  /\ CloseLocked(t, args[t].closer, "connect_notify")
  /\ UNCHANGED <<has_receiver_v, data, last, notifier, rcvVars, sender_made,
                 snap, res, histVars, schedVars>>

\* scheduler::connect, halted: the notify_all of closer.close().
ConnectCloseNotify(t) ==
  /\ pc[t] = "connect_notify"
  /\ NotifyAll(t, args[t].closer, "connect_join")
  /\ idx' = [idx EXCEPT ![t] = 1]
  /\ UNCHANGED <<has_receiver_v, is_closed_v, data, last, rcvVars, sender_made,
                 snap, res, histVars, sched_is_closed_v, closers, threads, m,
                 cv, joinable, args, halt_done>>

\* scheduler::connect, halted: th.join() returns once the thread has exited.
ConnectJoin(t) ==
  /\ pc[t] = "connect_join" /\ idx[t] <= Len(args[t].ths)
  /\ pc[args[t].ths[idx[t]]] = "exited"
  /\ joinable' = [joinable EXCEPT ![args[t].ths[idx[t]]] = FALSE]
  /\ idx' = [idx EXCEPT ![t] = @ + 1]
  /\ UNCHANGED <<chanAll, pc, res, sched_is_closed_v, closers, threads, m, cv,
                 args, halt_done>>

\* scheduler::connect, halted: return; the scope of the lock_guard ends.
ConnectReturn(t) ==
  /\ pc[t] = "connect_join" /\ idx[t] > Len(args[t].ths)
  /\ m' = NoThread
  /\ pc' = [pc EXCEPT ![t] = "idle"]
  /\ res' = [res EXCEPT ![t] = "joined"]
  /\ idx' = [idx EXCEPT ![t] = 1]
  /\ UNCHANGED <<chanAll, sched_is_closed_v, closers, threads, cv, joinable,
                 args, halt_done>>

\* wait that goes on to its joins without looking at is_closed_v.
WaitLocked_NoPredicate(t) ==
  /\ m = NoThread
  /\ m' = t
  /\ idx' = [idx EXCEPT ![t] = 1]
  /\ pc' = [pc EXCEPT ![t] = "wait_join"]
  /\ UNCHANGED cv
  /\ res' = [res EXCEPT ![t] = "none"]

\* scheduler::wait from an evaluation of the predicate of cv.wait, m held,
\* to the wait (m given up) or to the loop of joins (m kept).
WaitLocked(t) ==
  /\ m = NoThread
  /\ IF sched_is_closed_v
       THEN /\ m' = t
            /\ idx' = [idx EXCEPT ![t] = 1]
            /\ pc' = [pc EXCEPT ![t] = "wait_join"]
            /\ UNCHANGED cv
       ELSE /\ cv' = cv \cup {t}
            /\ pc' = [pc EXCEPT ![t] = "wait_blocked"]
            /\ UNCHANGED <<m, idx>>
  /\ res' = [res EXCEPT ![t] = "none"]

\* scheduler::wait: the call.
WaitCall(t) ==
  /\ t \in Drivers /\ pc[t] = "idle"
  /\ WaitLocked(t)
  /\ args' = [args EXCEPT ![t] = NoArgs]
  /\ UNCHANGED <<chanAll, sched_is_closed_v, closers, threads, joinable,
                 halt_done>>

\* scheduler::wait: a thread that left cv.wait takes m again.
WaitResume(t) ==
  /\ pc[t] = "wait_woken"
  /\ WaitLocked(t)
  /\ UNCHANGED <<chanAll, sched_is_closed_v, closers, threads, joinable, args,
                 halt_done>>

\* cv.wait may return without a notification.
WaitSpurious(t) ==
  /\ pc[t] = "wait_blocked" /\ t \in cv
  /\ cv' = cv \ {t}
  /\ pc' = [pc EXCEPT ![t] = "wait_woken"]
  /\ UNCHANGED <<chanAll, res, sched_is_closed_v, closers, threads, m, joinable,
                 args, idx, halt_done>>

\* scheduler::wait: th.join() in the loop over threads, m held.  join throws
\* std::system_error on a thread that is not joinable, and the exception
\* leaves wait; otherwise it returns once the thread has exited.
WaitJoin(t) ==
  /\ pc[t] = "wait_join" /\ idx[t] <= Len(threads)
  /\ IF ~joinable[threads[idx[t]]]
       THEN /\ m' = NoThread
            /\ pc' = [pc EXCEPT ![t] = "idle"]
            /\ res' = [res EXCEPT ![t] = "system_error"]
            /\ idx' = [idx EXCEPT ![t] = 1]
            /\ UNCHANGED joinable
       ELSE /\ pc[threads[idx[t]]] = "exited"
            /\ joinable' = [joinable EXCEPT ![threads[idx[t]]] = FALSE]
            /\ idx' = [idx EXCEPT ![t] = @ + 1]
            /\ UNCHANGED <<m, pc, res>>
  /\ UNCHANGED <<chanAll, sched_is_closed_v, closers, threads, cv, args,
                 halt_done>>

\* scheduler::wait: the loop is over; return, and the unique_lock unlocks.
WaitReturn(t) ==
  /\ pc[t] = "wait_join" /\ idx[t] > Len(threads)
  /\ m' = NoThread
  /\ pc' = [pc EXCEPT ![t] = "idle"]
  /\ res' = [res EXCEPT ![t] = "waited"]
  /\ idx' = [idx EXCEPT ![t] = 1]
  /\ UNCHANGED <<chanAll, sched_is_closed_v, closers, threads, cv, joinable,
                 args, halt_done>>

\* A worker's function: it calls next() until next() throws close_channel.
WorkerNext(w) ==
  /\ w \in Workers /\ res[w] # "close_channel"
  /\ NextCall(w)

\* A worker's function returns: the thread has exited.
WorkerExit(w) ==
  /\ w \in Workers /\ pc[w] = "idle" /\ res[w] = "close_channel"
  /\ pc' = [pc EXCEPT ![w] = "exited"]
  /\ UNCHANGED <<chanAll, res, schedVars>>

SchedNext ==
  \E t \in Drivers \cup Workers :
    \/ HaltLock(t)
    \/ HaltClose(t)
    \/ HaltCloseNotify(t)
    \/ HaltUnlock(t)
    \/ HaltNotify(t)
    \/ \E w \in Workers : ConnectThread(t, w)
    \/ \E ths \in ThreadLists : ConnectList(t, ths)
    \/ ConnectClose(t)
    \/ ConnectCloseNotify(t)
    \/ ConnectJoin(t)
    \/ ConnectReturn(t)
    \/ WaitCall(t)
    \/ WaitResume(t)
    \/ WaitSpurious(t)
    \/ WaitJoin(t)
    \/ WaitReturn(t)
    \/ WorkerNext(t)
    \/ NextResume(t)
    \/ SpuriousWake(t)
    \/ WorkerExit(t)

SchedSpec == SchedInit /\ [][SchedNext]_vars

\* ------------------------------------- workers that take part in the shutdown
\* A worker's function, on close_channel, calls scheduler::halt before it
\* returns: the worker is at the call (at the lock_guard of halt).
WorkerHaltCall(w) ==
  /\ w \in Workers /\ pc[w] = "idle" /\ res[w] = "close_channel"
  /\ pc' = [pc EXCEPT ![w] = "halt_call"]
  /\ UNCHANGED <<chanAll, res, schedVars>>

\* scheduler::halt called by a worker: the lock_guard takes m.
WorkerHaltLock(w) ==
  /\ w \in Workers /\ pc[w] = "halt_call"
  /\ HaltEnter(w)

\* A worker's function, on close_channel, hands a thread u it has started to
\* scheduler::connect before it returns: the worker is at the call (at the
\* lock_guard of connect).
WorkerConnectCall(w, u) ==
  /\ w \in Workers /\ pc[w] = "idle" /\ res[w] = "close_channel"
  /\ u # w /\ Free(u)
  /\ pc' = [pc EXCEPT ![w] = "connect_call"]
  /\ args' = [args EXCEPT ![w] = [ths |-> <<u>>, closer |-> WChan(u)]]
  /\ UNCHANGED <<chanAll, res, sched_is_closed_v, closers, threads, m, cv,
                 joinable, idx, halt_done>>

\* scheduler::connect called by a worker: the lock_guard takes m.
WorkerConnectLock(w) ==
  /\ w \in Workers /\ pc[w] = "connect_call"
  /\ ConnectLocked(w, args[w].ths, args[w].closer)
  /\ UNCHANGED <<chanAll, sched_is_closed_v, cv, joinable, idx, halt_done>>

\* A worker's function returns after its halt() or connect().
WorkerReturn(w) ==
  /\ w \in Workers /\ pc[w] = "idle" /\ res[w] \in {"halted", "joined", "stored"}
  /\ pc' = [pc EXCEPT ![w] = "exited"]
  /\ UNCHANGED <<chanAll, res, schedVars>>

\* The driver d1 connects the workers and waits; d2, or a worker on its way
\* out, calls halt; a worker on its way out may also connect a thread.
ShutdownNext ==
  \/ \E w \in Workers : ConnectThread("d1", w)
  \/ WaitCall("d1")
  \/ HaltLock("d2")
  \/ \E t \in Drivers \cup Workers :
       \/ HaltClose(t)
       \/ HaltCloseNotify(t)
       \/ HaltUnlock(t)
       \/ HaltNotify(t)
       \/ ConnectClose(t)
       \/ ConnectCloseNotify(t)
       \/ ConnectJoin(t)
       \/ ConnectReturn(t)
       \/ WaitResume(t)
       \/ WaitSpurious(t)
       \/ WaitJoin(t)
       \/ WaitReturn(t)
       \/ res[t] = "none" /\ WorkerNext(t)
       \/ NextResume(t)
       \/ SpuriousWake(t)
       \/ WorkerExit(t)
       \/ WorkerHaltCall(t)
       \/ WorkerHaltLock(t)
       \/ \E u \in Workers : WorkerConnectCall(t, u)
       \/ WorkerConnectLock(t)
       \/ WorkerReturn(t)

\* The steps of thread t that need no mutex another thread can hold: the
\* rest of a call it is in, and the course of a worker's function.
RunStep(t) ==
  \/ HaltClose(t) \/ HaltCloseNotify(t) \/ HaltUnlock(t) \/ HaltNotify(t)
  \/ ConnectClose(t) \/ ConnectCloseNotify(t) \/ ConnectJoin(t)
  \/ ConnectReturn(t)
  \/ WaitJoin(t) \/ WaitReturn(t)
  \/ res[t] = "none" /\ WorkerNext(t)
  \/ NextResume(t)
  \/ WorkerExit(t) \/ WorkerHaltCall(t)
  \/ \E u \in Workers : WorkerConnectCall(t, u)
  \/ WorkerReturn(t)

\* The steps of thread t that take scheduler::m inside a call.
LockStep(t) == WaitResume(t) \/ WorkerHaltLock(t) \/ WorkerConnectLock(t)

\* A thread inside a call, or inside its function, goes on when it can: a
\* runnable thread runs, and a thread at a mutex gets it if the mutex is free
\* again and again.  No fairness for a driver's new call or for a spurious
\* wake-up.
ShutdownFairness ==
  \A t \in Drivers \cup Workers : WF_vars(RunStep(t)) /\ SF_vars(LockStep(t))

ShutdownSpec == SchedInit /\ [][ShutdownNext]_vars /\ ShutdownFairness

\* ------------------------------------------- several threads inside wait()
\* scheduler::halt called by a thread that is neither a driver nor a worker.
HaltBy(t) ==
  /\ t \in Producers /\ pc[t] = "idle"
  /\ HaltEnter(t)

\* The drivers connect threads and call wait() on the running scheduler, so
\* each of these calls blocks in cv.wait; the thread p1 calls halt().
WaitersNext ==
  \/ \E t \in Drivers :
       \/ \E w \in Workers : ConnectThread(t, w)
       \/ ~sched_is_closed_v /\ WaitCall(t)
       \/ WaitResume(t)
       \/ WaitSpurious(t)
       \/ WaitJoin(t)
       \/ WaitReturn(t)
  \/ HaltBy("p1")
  \/ HaltClose("p1")
  \/ HaltCloseNotify("p1")
  \/ HaltUnlock("p1")
  \/ HaltNotify("p1")
  \/ \E w \in Workers :
       \/ WorkerNext(w)
       \/ NextResume(w)
       \/ SpuriousWake(w)
       \/ WorkerExit(w)

WaitersSpec == SchedInit /\ [][WaitersNext]_vars

\* ------------------------------------- a channel in use beside a scheduler
\* The channel of the producers and consumers, and the channel of worker w1.
OpsChans == {Chan, "ch1"}

\* Both channels come from make_channel<T>(with_shared_receiver); the
\* thread w1 has been started on the shared_receiver of ch1; the scheduler
\* has just been constructed.
OpsInit ==
  /\ ChannelState(OpsChans, [c \in OpsChans |-> TRUE])
  /\ iterator = [c \in OpsChans |-> Sentinel]
  /\ owner = [c \in OpsChans |-> IF c = Chan THEN "c1" ELSE "w1"]
  /\ shared = [c \in OpsChans |-> TRUE]
  /\ sender_made = [c \in OpsChans |-> TRUE]
  /\ snap = [t \in Threads |-> end]
  /\ res = [t \in Threads |-> "none"]
  /\ nextVal = 1
  /\ accepted = [c \in OpsChans |-> <<>>]
  /\ dropped = {}
  /\ received = [c \in OpsChans |-> <<>>]
  /\ peeked = [t \in Threads |-> nullopt]
  /\ pc = [t \in Threads |-> "idle"]
  /\ SchedulerState({"w1"})

\* p1 pushes and closes, c1 and c2 call next() and operator*, d1 calls
\* connect, halt and wait, w1 runs its function.
OpsNext ==
  \/ SenderPush("p1")
  \/ PushNotify("p1")
  \/ SenderClose("p1")
  \/ CloseNotify("p1")
  \/ \E t \in Consumers :
       \/ NextCall(t)
       \/ Peek(t)
  \/ \E t \in Consumers \cup {"w1"} :
       \/ NextResume(t)
       \/ SpuriousWake(t)
  \/ ConnectThread("d1", "w1")
  \/ ConnectClose("d1")
  \/ ConnectCloseNotify("d1")
  \/ ConnectJoin("d1")
  \/ ConnectReturn("d1")
  \/ HaltLock("d1")
  \/ HaltClose("d1")
  \/ HaltCloseNotify("d1")
  \/ HaltUnlock("d1")
  \/ HaltNotify("d1")
  \/ WaitCall("d1")
  \/ WaitResume("d1")
  \/ WaitSpurious("d1")
  \/ WaitJoin("d1")
  \/ WaitReturn("d1")
  \/ WorkerNext("w1")
  \/ WorkerExit("w1")

OpsSpec == OpsInit /\ [][OpsNext]_vars

\* The thread that thread t is joining, NoThread if it is joining none.
Joining(t) ==
  IF pc[t] = "wait_join" /\ idx[t] <= Len(threads)
    THEN threads[idx[t]]
  ELSE IF pc[t] = "connect_join" /\ idx[t] <= Len(args[t].ths)
    THEN args[t].ths[idx[t]]
  ELSE NoThread

\* The steps thread t takes inside halt().
HaltStep(t) ==
  /\ pc'[t] # pc[t]
  /\ \/ pc[t] \in {"halt_loop", "halt_notify", "halt_cv"}
     \/ pc'[t] \in {"halt_loop", "halt_notify", "halt_cv"}

\* The steps thread t takes inside connect() on a halted scheduler.
LateConnectStep(t) ==
  \/ pc[t] \in {"connect_close", "connect_notify", "connect_join"}
       /\ <<pc[t], idx[t], m>> # <<pc'[t], idx'[t], m'>>
  \/ pc'[t] = "connect_close" /\ pc[t] = "idle"

\* ------------------------------------------------------------------ claims
\* C1 (FIFO): when the receiver was attached before any push (no push was
\* dropped), the values next() has returned, in the order the calls held the
\* mutex, followed by the values still buffered beyond the cursor, are
\* exactly the values pushed, in the order the pushes held the mutex: the
\* k-th successful next() returns the k-th pushed value, nothing is lost,
\* duplicated or reordered.
C1_FIFO ==
  (owner[Chan] # NoThread /\ dropped = {}) =>
    /\ accepted[Chan] = [i \in 1..(nextVal - 1) |-> i]
    /\ received[Chan] \o Unread(Chan) = accepted[Chan]

C1_Witness ==
  /\ dropped = {}
  /\ Len(received[Chan]) >= 2
  /\ sender_made[Chan]

\* C2 (drop without receiver), as claimed: as long as no receiver has been
\* attached the queue holds only the sentinel slot, whatever was pushed, and
\* no value dropped by a push is ever returned by next().
C2_DropWithoutReceiver ==
  /\ owner[Chan] = NoThread =>
       data[Chan] = <<[id |-> Sentinel, val |-> nullopt]>>
  /\ \A i \in 1..Len(received[Chan]) : received[Chan][i] \notin dropped

\* C3 (single receiver): once a get_receiver() has succeeded, every
\* get_receiver() that completes fails with receiver_already_retrived, and no
\* step of such a call changes has_receiver_v, is_closed_v, the queue or the
\* receiver that exists.
C3_SingleReceiver ==
  [][\A t \in Consumers :
       (owner[Chan] # NoThread /\ pc'[t] # pc[t]
          /\ (pc[t] = "ctor" \/ pc'[t] = "ctor")) =>
         /\ UNCHANGED <<has_receiver_v, is_closed_v, data, last, owner, iterator>>
         /\ pc'[t] = "idle" => res'[t] = "receiver_already_retrived"]_vars

C3_Witness ==
  /\ owner[Chan] = "c1"
  /\ is_closed_v[Chan]
  /\ res["c2"] = "receiver_already_retrived"
  /\ res["c1"] = "receiver_already_retrived"

\* C4 (construction against a closed channel), as claimed: get_sender()
\* succeeds exactly while the channel is open, and a get_receiver() that
\* completes on a closed channel from which no receiver was obtained fails
\* with channel_already_closed and leaves has_receiver_v false.
C4_ClosedConstruction ==
  [][\A t \in ChanThreads :
       /\ GetSender(t) =>
            res'[t] = IF is_closed_v[Chan] THEN "channel_already_closed" ELSE "sender"
       /\ (pc[t] = "ctor" /\ pc'[t] = "idle"
             /\ is_closed_v[Chan] /\ owner[Chan] = NoThread) =>
            /\ res'[t] = "channel_already_closed"
            /\ ~has_receiver_v'[Chan]]_vars

\* C5 (close precedence): while is_closed_v is true no next() returns a
\* value, advances the cursor or removes a slot, however many items are
\* buffered; a call that evaluates its result fails with close_channel
\* instead of blocking; and close_channel is only ever the outcome on a closed
\* channel, so after the first close_channel no next() returns a value.
C5_ClosePrecedence ==
  /\ [][is_closed_v[Chan] =>
          /\ received' = received
          /\ iterator' = iterator
          /\ IsPrefix(data[Chan], data'[Chan])
          /\ \A t \in Consumers :
               /\ (pc[t] = "woken" /\ pc'[t] # "woken") =>
                    (pc'[t] = "idle" /\ res'[t] = "close_channel")
               /\ pc'[t] = "waiting" => pc[t] = "waiting"]_vars
  /\ [](\A t \in Consumers : res[t] = "close_channel" => is_closed_v[Chan])

C5_Witness ==
  /\ is_closed_v[Chan]
  /\ owner[Chan] # NoThread
  /\ Len(Unread(Chan)) >= 1
  /\ res["c1"] = "close_channel"
  /\ Len(received[Chan]) >= 1

\* C6 (idempotent, irreversible close): is_closed_v never goes back to false;
\* a close() on a closed channel changes nothing of the channel state
\* (is_closed_v, the queue, the cursors, has_receiver_v); and a close() that
\* has set the flag can always finish (its notify_all waits for nothing).
C6_IdempotentClose ==
  /\ [][/\ is_closed_v[Chan] => is_closed_v'[Chan]
        /\ \A t \in Producers :
             (is_closed_v[Chan] /\ pc'[t] # pc[t]
                /\ (pc[t] = "close_notify" \/ pc'[t] = "close_notify")) =>
               UNCHANGED <<is_closed_v, data, last, iterator, has_receiver_v>>]_vars
  /\ [](\A t \in Producers : pc[t] = "close_notify" => ENABLED CloseNotify(t))

C6_Witness ==
  /\ is_closed_v[Chan]
  /\ pc["p1"] = "close_notify"
  /\ pc["p2"] = "close_notify"
  /\ Len(data[Chan]) >= 2

\* C7 (close cancels every consumer): once is_closed_v is set, every next()
\* that is blocked ends with close_channel, and a next() called later ends
\* with close_channel without blocking; so a loop on next() until
\* close_channel ends once the channel is closed.  What the calls have
\* returned up to then is a prefix, in order, of the values appended.
C7_CloseCancels ==
  /\ \A t \in Consumers :
       (is_closed_v[Chan] /\ InNext(t)) ~> (pc[t] = "idle" /\ res[t] = "close_channel")
  /\ [][\A t \in Consumers :
          (is_closed_v[Chan] /\ pc[t] = "idle") => pc'[t] = "idle"]_vars
  /\ [][\A t \in Consumers :
          (is_closed_v[Chan] /\ res'[t] # res[t]) => res'[t] = "close_channel"]_vars
  /\ [](IsPrefix(received[Chan], accepted[Chan]))

C7_Witness ==
  /\ is_closed_v[Chan]
  /\ res["c1"] = "close_channel" /\ res["c2"] = "close_channel"
  /\ pc["c1"] = "idle" /\ pc["c2"] = "idle"
  /\ Len(received[Chan]) >= 1
  /\ Len(received[Chan]) < Len(accepted[Chan])

\* C8 (competing consumers): with several threads in next() on copies of one
\* shared_receiver, the values returned, in the order the calls held the
\* mutex, are a prefix of the values appended, each returned once; and an
\* unread item is not left behind a blocked caller: a caller blocked while an
\* item is unread and the channel open returns, unless other calls take the
\* items or the channel is closed.
C8_CompetingConsumers ==
  /\ [](/\ IsPrefix(received[Chan], accepted[Chan])
        /\ \A i, j \in 1..Len(received[Chan]) :
             received[Chan][i] = received[Chan][j] => i = j)
  /\ [][Len(received'[Chan]) <= Len(received[Chan]) + 1]_vars
  /\ \A t \in Consumers :
       (InNext(t) /\ Len(Unread(Chan)) >= 1 /\ ~is_closed_v[Chan])
         ~> (pc[t] = "idle" \/ Len(Unread(Chan)) = 0 \/ is_closed_v[Chan])

C8_Witness ==
  /\ ~is_closed_v[Chan]
  /\ pc["c1"] = "waiting" /\ pc["c2"] = "woken"
  /\ Len(Unread(Chan)) >= 1
  /\ Len(received[Chan]) >= 2

\* C9 (halt closes the fleet and is terminal): when a halt() has returned,
\* the scheduler is halted and the channel of every closer in the scheduler's
\* list is closed (no closer is stored after a halt, so these are the closers
\* of the connects that completed before it); is_closed_v of the scheduler
\* never goes back to false; and no step of a halt() that takes the mutex
\* after a halt() has released it changes the scheduler's flag or lists, a
\* thread object or any channel's state (all it can still do is wake the
\* threads blocked in wait()).
C9_HaltTerminal ==
  /\ [](\A t \in Drivers :
          res[t] = "halted" =>
            /\ sched_is_closed_v
            /\ \A i \in 1..Len(closers) : is_closed_v[closers[i]])
  /\ [][sched_is_closed_v => sched_is_closed_v']_vars
  /\ [][\A t \in Drivers :
          (halt_done /\ HaltStep(t)) =>
            UNCHANGED <<sched_is_closed_v, closers, threads, joinable,
                        has_receiver_v, is_closed_v, data, last, notifier,
                        iterator>>]_vars

C9_Witness ==
  /\ res["d1"] = "halted" /\ res["d2"] = "halted"
  /\ Len(closers) >= 2
  /\ Range(closers) = WorkerChans

\* C10 (late join): a connect() that finds the scheduler halted stores
\* nothing (no step of it changes threads or closers), and when it has
\* returned the closer's channel is closed and every thread it was given has
\* exited and been joined; a connect() that finds the scheduler running puts
\* its threads and its closer at the front of the lists and returns, and
\* closes and joins nothing.
C10_LateJoin ==
  /\ [](\A t \in Drivers :
          res[t] = "joined" =>
            /\ is_closed_v[args[t].closer]
            /\ \A w \in Range(args[t].ths) :
                 pc[w] = "exited" /\ ~joinable[w] /\ w \notin Range(threads))
  /\ [][\A t \in Drivers :
          /\ LateConnectStep(t) => UNCHANGED <<threads, closers>>
          /\ (args'[t] # args[t] /\ args'[t] # NoArgs) =>
               IF sched_is_closed_v
                 THEN pc'[t] = "connect_close"
                 ELSE /\ threads' = args'[t].ths \o threads
                      /\ closers' = <<args'[t].closer>> \o closers
                      /\ pc'[t] = "idle" /\ res'[t] = "stored"
                      /\ UNCHANGED <<is_closed_v, joinable, notifier, m>>]_vars

C10_Witness ==
  /\ res["d1"] = "joined" /\ Len(args["d1"].ths) = 2
  /\ res["d2"] = "stored" /\ args["d2"].ths = <<"w1">>
  /\ threads = <<"w1">>

\* The labels of a thread inside scheduler::wait.
InWait(t) == pc[t] \in {"wait_blocked", "wait_woken", "wait_join"}

\* C11 (wait is the rendezvous): no wait() is left, by a return or by an
\* exception, while the scheduler is running (is_closed_v false); and when a
\* wait() has returned, every thread in the scheduler's list (the threads the
\* connects stored) has run to its end and has been joined.
C11_WaitRendezvous ==
  /\ [][\A t \in Drivers :
          (InWait(t) /\ ~InWait(t)') => sched_is_closed_v]_vars
  /\ [](\A t \in Drivers :
          res[t] = "waited" =>
            /\ sched_is_closed_v
            /\ \A w \in Range(threads) : pc[w] = "exited" /\ ~joinable[w])

C11_Witness ==
  /\ res["d1"] = "waited"
  /\ Len(threads) = 3
  /\ Len(closers) = 2
  /\ res["d2"] = "halted"

\* A thread holds m and is joining a thread that is at the lock_guard of
\* halt or connect: neither can ever take a step again.
Deadlocked ==
  \E t \in Drivers \cup Workers :
    /\ m = t
    /\ Joining(t) # NoThread
    /\ pc[Joining(t)] \in {"halt_call", "connect_call"}

\* C12 (cooperative shutdown terminates), as claimed: with workers that
\* return once next() fails with close_channel, some of them calling halt()
\* or connect() on their way out, no reachable state is a deadlock; once a
\* halt() has been through, a driver inside wait() gets out of it with every
\* join done, and every registered worker exits.
C12_ShutdownTerminates ==
  /\ [](~Deadlocked)
  /\ \A d \in Drivers : (halt_done /\ InWait(d)) ~> (res[d] = "waited")
  /\ \A w \in Workers :
       (halt_done /\ w \in Range(threads)) ~> (pc[w] = "exited")

\* C13 (halt releases all waiters), as claimed: the notify_all of a halt()
\* takes every thread blocked in wait() out of cv.wait, and each of these
\* wait() calls completes normally: none of them joins a thread that is no
\* longer joinable (which ends the call with std::system_error), and once
\* the registered threads have exited a wait() that holds m is not held up.
C13_HaltReleasesWaiters ==
  /\ [][\A h \in Threads :
          (pc[h] = "halt_cv" /\ pc'[h] = "idle") =>
            /\ cv' = {}
            /\ \A t \in cv : pc'[t] = "wait_woken"]_vars
  /\ [](\A t \in Drivers : res[t] # "system_error")
  /\ [](\A t \in Drivers :
          (pc[t] = "wait_join" /\ \A w \in Range(threads) : pc[w] = "exited")
            => ENABLED (WaitJoin(t) \/ WaitReturn(t)))

\* The step that takes thread t on inside the call it is in (a spurious
\* wake-up is not one).
OwnStep(t) ==
  \/ PushNotify(t) \/ CloseNotify(t) \/ ReceiverBody(t) \/ NextResume(t)
  \/ HaltClose(t) \/ HaltCloseNotify(t) \/ HaltUnlock(t) \/ HaltNotify(t)
  \/ ConnectClose(t) \/ ConnectCloseNotify(t) \/ ConnectJoin(t)
  \/ ConnectReturn(t)
  \/ WaitResume(t) \/ WaitJoin(t) \/ WaitReturn(t)

\* Thread t is inside a call and cannot go on: it waits for a notification,
\* for a mutex or for the end of another thread.
Suspended(t) == pc[t] \notin {"idle", "exited"} /\ ~ENABLED OwnStep(t)

\* C14 (suspension points), as claimed: a thread that is inside a call and
\* cannot go on is inside receiver::next() or scheduler::wait(); push, close,
\* peek and connect, on a running and on a halted scheduler, never are in
\* that position.
C14_SuspensionPoints ==
  \A t \in Threads :
    Suspended(t) =>
      pc[t] \in {"waiting", "wait_blocked", "wait_woken", "wait_join"}

\* C14, amended: a thread that is inside a call and cannot go on is inside
\* next(), inside wait(), or inside a connect() that found the scheduler
\* halted and is joining a thread that has not exited.  A connect() that
\* finds the scheduler running returns in the step that takes the mutex;
\* push, close and peek can always be entered by an idle thread (data_mutex
\* is never held by a suspended thread), and the notify that ends push and
\* close is always enabled.
C14_SuspensionPointsAmended ==
  /\ [](\A t \in Threads :
          Suspended(t) =>
            \/ pc[t] \in {"waiting", "wait_blocked", "wait_woken", "wait_join"}
            \/ /\ pc[t] = "connect_join" /\ sched_is_closed_v
               /\ Joining(t) # NoThread /\ pc[Joining(t)] # "exited")
  /\ [][\A t \in Drivers :
          (args'[t] # args[t] /\ args'[t] # NoArgs /\ ~sched_is_closed_v) =>
            pc'[t] = "idle" /\ res'[t] = "stored"]_vars
  /\ [](\A t \in Consumers :
          (pc[t] = "idle" /\ HoldsReceiver(t)) => ENABLED Peek(t))
  /\ [](\A t \in Producers :
          (pc[t] = "idle" /\ sender_made[Chan]) =>
            /\ ENABLED SenderClose(t)
            /\ nextVal <= MaxPush => ENABLED SenderPush(t))

C14_Witness ==
  /\ Suspended("d1") /\ pc["d1"] = "connect_join"
  /\ pc["p1"] = "push_notify"
  /\ pc["c1"] = "waiting"
  /\ res["c2"] = "peeked"
  /\ is_closed_v["ch1"] /\ ~is_closed_v[Chan]

\* Thread t is blocked in th.join(): the thread it joins has not exited.
BlockedInJoin(t) ==
  /\ Joining(t) # NoThread
  /\ pc[Joining(t)] # "exited"
  /\ pc[t] = "wait_join" => joinable[Joining(t)]

\* C15 (joins happen outside the scheduler lock), as claimed: a thread that
\* is blocked joining a worker, inside wait() or inside connect() on a halted
\* scheduler, does not hold m, and another thread can enter halt() meanwhile.
C15_JoinsOutsideLock ==
  \A t \in Drivers :
    BlockedInJoin(t) =>
      /\ m # t
      /\ \A u \in Drivers \ {t} : pc[u] = "idle" => ENABLED HaltLock(u)

\* The number of pushes executed while a receiver was attached: a receiver
\* is attached for good once its constructor has succeeded, and has_receiver_v
\* was false until then if it succeeded.
PushesWithReceiver(c) == IF owner[c] # NoThread THEN Len(accepted[c]) ELSE 0

\* C16 (queue length), as claimed: the number of slots in the list is the
\* number of pushes executed while a receiver was attached, minus the number
\* of next() calls that returned a value, plus one; the list is the head slot
\* followed by the unread items; and a next() that returns a value removes
\* exactly the old head.
C16_QueueLength ==
  /\ [](Len(data[Chan]) =
          PushesWithReceiver(Chan) - Len(received[Chan]) + 1)
  /\ [](owner[Chan] # NoThread =>
          /\ data[Chan][1].id = iterator[Chan]
          /\ Len(Unread(Chan)) = Len(data[Chan]) - 1)
  /\ [][Len(received'[Chan]) # Len(received[Chan]) =>
          data'[Chan] = Tail(data[Chan])]_vars

\* A step in which thread t returns from operator*.
PeekStep(t) ==
  /\ res'[t] = "peeked"
  /\ <<res[t], peeked[t]>> # <<res'[t], peeked'[t]>>

\* C17 (peek never consumes): operator* can always be entered by an idle
\* holder of the receiver, whatever the channel's state; it returns the
\* content of the slot at the cursor (nullopt before the first successful
\* next(), the value the last next() returned after it) in one step; and it
\* leaves the cursor, the queue, the tail cursor, has_receiver_v, is_closed_v,
\* the waiters and what next() has returned unchanged, so every later next()
\* finds the state it would have found without the peek.
C17_PeekNeverConsumes ==
  /\ [](\A t \in Consumers :
          (pc[t] = "idle" /\ HoldsReceiver(t)) => ENABLED Peek(t))
  /\ [][\A t \in Consumers :
          PeekStep(t) =>
            /\ peeked'[t] = Deref(data[Chan], iterator[Chan])
            /\ peeked'[t] = (IF received[Chan] = <<>> THEN nullopt
                              ELSE Some(received[Chan][Len(received[Chan])]))
            /\ pc' = pc
            /\ UNCHANGED <<iterator, data, last, has_receiver_v, is_closed_v,
                           notifier, received, accepted, owner, shared>>]_vars

C17_Witness ==
  /\ res["c1"] = "peeked" /\ peeked["c1"] = Some(2)
  /\ res["c2"] = "peeked" /\ peeked["c2"] = nullopt
  /\ Len(Unread(Chan)) >= 1
  /\ is_closed_v[Chan]

\* C18 (push never errors), as claimed: a push can be entered in every
\* channel state and ends without an exception; with no receiver attached it
\* changes nothing of the channel; with a receiver attached it appends
\* exactly one slot, holding its value, after the last slot and moves the
\* tail cursor to it, also on a closed channel.
C18_PushNeverErrors ==
  /\ [](\A t \in Producers :
          (pc[t] = "idle" /\ nextVal <= MaxPush) => ENABLED ChannelPush(t))
  /\ [][nextVal' # nextVal =>
          /\ \A t \in Producers : res'[t] = res[t] \/ res'[t] = "none"
          /\ UNCHANGED <<has_receiver_v, is_closed_v, iterator, owner>>
          /\ IF owner[Chan] = NoThread
               THEN UNCHANGED <<data, last>>
               ELSE /\ data'[Chan] = Append(data[Chan],
                                           [id |-> last'[Chan], val |-> Some(nextVal)])
                    /\ last'[Chan] \notin {data[Chan][i].id : i \in 1..Len(data[Chan])}]_vars

\* No operation has been applied to the channel yet.
Fresh ==
  /\ nextVal = 1
  /\ owner[Chan] = NoThread /\ ~sender_made[Chan] /\ ~is_closed_v[Chan]
  /\ \A t \in ChanThreads : pc[t] = "idle" /\ res[t] = "none"

\* C19 (initial channel state), as claimed: a channel on which nothing has
\* been called has is_closed_v false, has_receiver_v false and a list of
\* exactly the sentinel slot with last on it; so has_receiver_v is false as
\* long as no receiver was obtained, the first get_receiver() that completes
\* on an unclosed channel succeeds, and a push made before any receiver was
\* obtained is dropped.
C19_InitialState ==
  /\ [](Fresh =>
          /\ ~is_closed_v[Chan] /\ ~has_receiver_v[Chan]
          /\ data[Chan] = <<[id |-> Sentinel, val |-> nullopt]>>
          /\ last[Chan] = Sentinel)
  /\ [](owner[Chan] = NoThread => ~has_receiver_v[Chan])
  /\ [][\A t \in Consumers :
          (pc[t] = "ctor" /\ pc'[t] = "idle"
             /\ owner[Chan] = NoThread /\ ~is_closed_v[Chan]) =>
            res'[t] = "receiver" /\ owner'[Chan] = t]_vars
  /\ [][(nextVal' # nextVal /\ owner[Chan] = NoThread) =>
          dropped' = dropped \cup {nextVal} /\ data' = data]_vars

\* C20 (no orphan under a connect/halt race): once a halt() has been through
\* its critical section, every closer in the scheduler's list has its channel
\* closed; and a connect() that has returned, whichever side of the halt() it
\* fell on, has its closer's channel closed and each of its threads either
\* in the scheduler's list or exited and joined.
C20_NoOrphan ==
  /\ halt_done => \A i \in 1..Len(closers) : is_closed_v[closers[i]]
  /\ \A t \in Drivers :
       (halt_done /\ res[t] \in {"stored", "joined"}) =>
         /\ is_closed_v[args[t].closer]
         /\ \A w \in Range(args[t].ths) :
              \/ w \in Range(threads)
              \/ pc[w] = "exited" /\ ~joinable[w]
         /\ res[t] = "stored" => args[t].closer \in Range(closers)

C20_Witness ==
  /\ halt_done /\ res["d2"] = "halted"
  /\ res["d1"] = "joined" /\ args["d1"].ths = <<"w1">>
  /\ threads = <<"w2", "w3">> /\ closers = <<"ch2">>
  /\ joinable["w2"] /\ pc["w2"] = "exited"

====
